---------------------------- MODULE Spec2Model ----------------------------
(***************************************************************************)
(* RFM segmentation engine of Crm_Analytics (src/src/rfm_analyzer.py), and *)
(* the pipeline of src/src/main.py around it: cleaning, EDA, churn        *)
(* labelling, CLV and the segment/CLV comparison.                          *)
(*                                                                         *)
(* The state is one RFMAnalyzer object: its transaction table `data`, the  *)
(* table objects it still references (`heap`), and the two references     *)
(* `rfm` and `rfm_segments` into it (0 stands for None).  One action per   *)
(* public method.                                                          *)
(*                                                                         *)
(* Time is counted in half days (OneDay = 2 units), so that Timedelta.days *)
(* (a floor) is not the identity.  Quantile edges are kept exactly: an     *)
(* edge of a q-quantile cut is stored multiplied by q, which is an integer *)
(* for integer metrics (pandas interpolates linearly between the two       *)
(* neighbouring order statistics).                                         *)
(***************************************************************************)
EXTENDS Integers, Sequences, FiniteSets, TLC

VARIABLES data, heap, rfm, rfm_segments, last, scores, label,
          pc, raw_data, clean_data, churn_data, churn_features, clv_predictions, segment_clv,
          lifetimes, summary, bgf_model, ggf_model, bgf, ggf

\* the local variables of main() (src/src/main.py), pc being its position
mainVars == <<pc, raw_data, clean_data, churn_data, churn_features, clv_predictions, segment_clv>>

\* a BuyTillYouDieModels object (summary, bgf_model, ggf_model), whether the
\* lifetimes package can be imported, and the models main() got back (bgf, ggf)
clvVars == <<lifetimes, summary, bgf_model, ggf_model, bgf, ggf>>

vars == <<data, heap, rfm, rfm_segments, last, scores, label, mainVars, clvVars>>

(***************************************************************************)
(* Bounds of the model.                                                    *)
(***************************************************************************)
\* the most rows of a transaction table of the first family
MaxRows == 3
\* the number of customers of a transaction table of the second family
WideCust == 3

\* pd.Timedelta(days=1), in time units
OneDay == 2

DefaultBins == 5

None == 0
NaT == "NaT"

\* the values a row of the first family draws its columns from
Customers == 1..2
Invoices == 1..2
Times == 0..2
Prices == {1}

\* reference_date arguments a caller may pass (None: the default)
RefChoices == {None, 1}
\* (r_bins, f_bins, m_bins) arguments a caller may pass
BinChoices == {<<DefaultBins, DefaultBins, DefaultBins>>, <<1, 1, 1>>, <<DefaultBins, 1, 2>>}
\* bin counts under which the rule engine is exercised on its own
RuleBinCounts == {DefaultBins, 10}

Range(s) == {s[i] : i \in DOMAIN s}

RECURSIVE SumSeq(_)
SumSeq(s) == IF s = <<>> THEN 0 ELSE Head(s) + SumSeq(Tail(s))

SetMax(S) == CHOOSE x \in S : \A y \in S : y <= x

(***************************************************************************)
(* The transaction table: rows of the cleaned DataFrame.  Every aggregate  *)
(* the analyzer takes (max, nunique, sum, and groupby, which sorts its     *)
(* keys) is independent of the row order, so row sequences are enumerated  *)
(* in one canonical (non-decreasing) order.                                *)
(***************************************************************************)
Row == [CustomerID : Customers, InvoiceNo : Invoices, InvoiceDate : Times, TotalPrice : Prices]

RowKey(r) == ((r.CustomerID * 10 + r.InvoiceNo) * 10 + r.InvoiceDate) * 10 + r.TotalPrice

RowSets == {s \in UNION {[1..n -> Row] : n \in 0..MaxRows} : \A i \in 1..(Len(s) - 1) : RowKey(s[i]) <= RowKey(s[i + 1])}

(***************************************************************************)
(* A second family of transaction tables, with more customers: customer c  *)
(* of 1..WideCust placed p.freq one-line invoices, numbered c*10 + k, all  *)
(* on day p.day and each of total price c.                                 *)
(***************************************************************************)
Profile == [day : 0..2, freq : 1..2]

ProfileRows(c, p) == [k \in 1..p.freq |-> [CustomerID |-> c, InvoiceNo |-> c * 10 + k, InvoiceDate |-> p.day * OneDay, TotalPrice |-> c]]

RECURSIVE ProfileData(_, _)
ProfileData(ps, c) == IF c > Len(ps) THEN <<>> ELSE ProfileRows(c, ps[c]) \o ProfileData(ps, c + 1)

ProfileSets == {ProfileData(ps, 1) : ps \in [1..WideCust -> Profile]}

DataSets == RowSets \cup ProfileSets

\* self.data['InvoiceDate'].max(): NaT on an empty column
MaxInvoiceDate(d) == IF d = <<>> THEN NaT ELSE SetMax({d[i].InvoiceDate : i \in DOMAIN d})

\* the rows of one groupby('CustomerID') group
GroupRows(d, c) == SelectSeq(d, LAMBDA r : r.CustomerID = c)

\* the group keys, in the sorted order groupby gives them
RECURSIVE SortedKeys(_)
SortedKeys(S) == IF S = {} THEN <<>> ELSE LET m == CHOOSE x \in S : \A y \in S : x <= y IN <<m>> \o SortedKeys(S \ {m})

\* mutant: one row per transaction row, the groupby forgotten
GroupKeysPerRow(d) == [i \in DOMAIN d |-> d[i].CustomerID]

GroupKeys(d) == SortedKeys({d[i].CustomerID : i \in DOMAIN d})

\* Timedelta.days: whole days, rounded towards minus infinity
Days(delta) == delta \div OneDay

\* lambda x: (reference_date - x.max()).days
RecencyOf(g, reference_date) == Days(reference_date - MaxInvoiceDate(g))

\* mutant: 'count' instead of 'nunique'
FrequencyOfCount(g) == Len(g)

\* 'nunique'
FrequencyOf(g) == Cardinality({g[i].InvoiceNo : i \in DOMAIN g})

\* 'sum'
MonetaryOf(g) == SumSeq([i \in DOMAIN g |-> g[i].TotalPrice])

\* mutant: the default reference is the last invoice time itself
ResolveReferenceLastDate(d, reference_date) == IF reference_date = None THEN MaxInvoiceDate(d) ELSE reference_date

\* reference_date as calculate_rfm resolves it
ResolveReference(d, reference_date) == IF reference_date = None THEN (IF d = <<>> THEN NaT ELSE MaxInvoiceDate(d) + OneDay) ELSE reference_date

MetricCols == {"CustomerID", "Recency", "Frequency", "Monetary"}

\* one row of rfm_data; the score columns do not exist yet (see cols)
MetricRow(d, c, ref) ==
    LET g == GroupRows(d, c) IN
    [CustomerID |-> c, Recency |-> RecencyOf(g, ref), Frequency |-> FrequencyOf(g), Monetary |-> MonetaryOf(g),
     R_Score |-> 0, F_Score |-> 0, M_Score |-> 0, RFM_Score |-> <<>>, Segment |-> ""]

\* the DataFrame calculate_rfm builds; ref records the reference it was built for
RfmData(d, reference_date) ==
    LET ref == ResolveReference(d, reference_date)
        keys == GroupKeys(d)
    IN [cols |-> MetricCols, ref |-> ref, rows |-> [i \in DOMAIN keys |-> MetricRow(d, keys[i], ref)]]


(***************************************************************************)
(* Table objects.  The analyzer reaches a table only through self.rfm and  *)
(* self.rfm_segments; a table neither of them references can no longer be  *)
(* read or changed by it, and is dropped from the heap.                    *)
(***************************************************************************)
\* the position in the compacted heap of the object at position i
NewRef(i, r, rs) == IF i = None THEN None ELSE Cardinality({j \in 1..i : j \in {r, rs}})

\* heap and references with only the referenced objects kept
Collect(h, r, rs) ==
    LET live == {i \in DOMAIN h : i \in {r, rs}}
    IN [heap |-> [k \in 1..Cardinality(live) |-> h[CHOOSE i \in live : NewRef(i, r, rs) = k]],
        rfm |-> NewRef(r, r, rs),
        rfm_segments |-> NewRef(rs, r, rs)]

\* self.rfm = rfm_data: a fresh table object t becomes self.rfm
AssignRfm(h, rs, t) == Collect(Append(h, t), Len(h) + 1, rs)

(***************************************************************************)
(* pd.qcut(column, q, labels) with the default duplicates='raise'.         *)
(***************************************************************************)
\* the column sorted ascending
SortedValues(col) == SortSeq(col, LAMBDA a, b : a < b)

\* q times the i-th of the q+1 quantile edges of a non-empty column, given sorted:
\* quantile i/q by linear interpolation at position (n-1)*i/q
ScaledEdge(sorted, q, i) ==
    LET h == (Len(sorted) - 1) * i
        lo == h \div q
        fr == h % q
    IN IF fr = 0 THEN q * sorted[lo + 1]
       ELSE q * sorted[lo + 1] + fr * (sorted[lo + 2] - sorted[lo + 1])

\* bins = column.quantile(linspace(0, 1, q+1)), each multiplied by q; the
\* quantiles of an empty column are all NaN
NaN == "NaN"
ScaledEdges(col, q) ==
    IF col = <<>> THEN [i \in 1..(q + 1) |-> NaN]
    ELSE LET sorted == SortedValues(col) IN [i \in 1..(q + 1) |-> ScaledEdge(sorted, q, i - 1)]

\* "Bin edges must be unique": fewer distinct edges than edges, unless there are
\* just two edges
EdgesRaise(edges) == Cardinality(Range(edges)) < Len(edges) /\ Len(edges) # 2

\* bins.searchsorted(x, side='left'), with include_lowest: the 1-based bin of x,
\* 0 or q+1 when x falls outside every bin
BinOf(edges, q, x) ==
    IF q * x = edges[1] THEN 1
    ELSE Cardinality({i \in DOMAIN edges : edges[i] < q * x})

\* labels=range(r_bins, 0, -1)
DescendingLabels(q) == [p \in 1..q |-> q - p + 1]

\* labels=range(1, f_bins+1)
AscendingLabels(q) == [p \in 1..q |-> p]

\* pd.qcut(col, q, labels): the label of each value, 0 standing for NaN (no bin);
\* raised when the edges are not unique
Qcut(col, q, labels) ==
    LET edges == ScaledEdges(col, q) IN
    IF EdgesRaise(edges) THEN [raised |-> TRUE, values |-> <<>>]
    ELSE [raised |-> FALSE,
          values |-> [i \in DOMAIN col |-> LET b == BinOf(edges, q, col[i]) IN IF b \in 1..q THEN labels[b] ELSE 0]]

Column(t, name) == [i \in DOMAIN t.rows |-> t.rows[i][name]]

\* self.rfm[name] = values
SetColumn(t, name, values) ==
    [t EXCEPT !.cols = @ \cup {name}, !.rows = [i \in DOMAIN t.rows |-> [t.rows[i] EXCEPT ![name] = values[i]]]]

(***************************************************************************)
(* RFM_Score and the segment rules.  A string is a sequence of decimal     *)
(* digits; .str[0] and .str[1] are its first two characters.               *)
(***************************************************************************)
\* astype(str) of a score
RECURSIVE Str(_)
Str(n) == IF n < 10 THEN <<n>> ELSE Str(n \div 10) \o <<n % 10>>

\* R_Score.astype(str) + F_Score.astype(str) + M_Score.astype(str)
RfmScore(r, f, m) == Str(r) \o Str(f) \o Str(m)

\* RFM_Score.str[0].astype(int)
RuleR(s) == s[1]

\* mutant: the frequency input read from the third character
RuleFThird(s) == s[3]

\* RFM_Score.str[1].astype(int)
RuleF(s) == s[2]

\* mutant: the Champions assignment executed last instead of first
SegmentOfChampionsLast(s) ==
    LET s0 == "Low-Value"
        s2 == IF RuleR(s) >= 2 /\ RuleR(s) < 4 /\ RuleF(s) >= 3 THEN "Loyal Customers" ELSE s0
        s3 == IF RuleR(s) >= 3 /\ RuleF(s) < 3 THEN "Potential Loyalists" ELSE s2
        s4 == IF RuleR(s) < 2 /\ RuleF(s) >= 4 THEN "At Risk" ELSE s3
        s5 == IF RuleR(s) < 2 /\ RuleF(s) < 2 THEN "Lost" ELSE s4
    IN IF RuleR(s) >= 4 THEN "Champions" ELSE s5

\* mutant: no default assignment, unmatched rows keep the missing value
SegmentOfNoDefault(s) ==
    LET s0 == ""
        s1 == IF RuleR(s) >= 4 THEN "Champions" ELSE s0
        s2 == IF RuleR(s) >= 2 /\ RuleR(s) < 4 /\ RuleF(s) >= 3 THEN "Loyal Customers" ELSE s1
        s3 == IF RuleR(s) >= 3 /\ RuleF(s) < 3 THEN "Potential Loyalists" ELSE s2
        s4 == IF RuleR(s) < 2 /\ RuleF(s) >= 4 THEN "At Risk" ELSE s3
        s5 == IF RuleR(s) < 2 /\ RuleF(s) < 2 THEN "Lost" ELSE s4
    IN s5

\* the 'Segment' value of a row after the .loc assignments, executed in order
SegmentOf(s) ==
    LET s0 == "Low-Value"
        s1 == IF RuleR(s) >= 4 THEN "Champions" ELSE s0
        s2 == IF RuleR(s) >= 2 /\ RuleR(s) < 4 /\ RuleF(s) >= 3 THEN "Loyal Customers" ELSE s1
        s3 == IF RuleR(s) >= 3 /\ RuleF(s) < 3 THEN "Potential Loyalists" ELSE s2
        s4 == IF RuleR(s) < 2 /\ RuleF(s) >= 4 THEN "At Risk" ELSE s3
        s5 == IF RuleR(s) < 2 /\ RuleF(s) < 2 THEN "Lost" ELSE s4
    IN s5

\* lines 77-90 on a table whose three score columns exist
LabelTable(t) ==
    LET t1 == SetColumn(t, "RFM_Score", [i \in DOMAIN t.rows |-> RfmScore(t.rows[i].R_Score, t.rows[i].F_Score, t.rows[i].M_Score)])
    IN SetColumn(t1, "Segment", [i \in DOMAIN t1.rows |-> SegmentOf(t1.rows[i].RFM_Score)])

\* one `self.rfm[score] = pd.qcut(self.rfm[metric], q=bins, labels=...)`: the
\* table after it, and whether qcut raised (then the column is not assigned)
ScoreColumn(t, metric, score, bins, labels) ==
    LET c == Qcut(Column(t, metric), bins, labels) IN
    IF c.raised THEN [table |-> t, raised |-> TRUE]
    ELSE [table |-> SetColumn(t, score, c.values), raised |-> FALSE]

\* mutant: R_Score labelled like F_Score and M_Score, range(1, r_bins+1)
ScoreRAscending(t, r_bins) == ScoreColumn(t, "Recency", "R_Score", r_bins, AscendingLabels(r_bins))

\* mutant: the recency scores assigned to the 'Recency' column itself
ScoreRInPlace(t, r_bins) == ScoreColumn(t, "Recency", "Recency", r_bins, DescendingLabels(r_bins))

ScoreR(t, r_bins) == ScoreColumn(t, "Recency", "R_Score", r_bins, DescendingLabels(r_bins))

ScoreF(t, f_bins) == ScoreColumn(t, "Frequency", "F_Score", f_bins, AscendingLabels(f_bins))

ScoreM(t, m_bins) == ScoreColumn(t, "Monetary", "M_Score", m_bins, AscendingLabels(m_bins))

\* lines 72-90 on table t: the table as the call leaves it, and whether it raised
SegmentTable(t, r_bins, f_bins, m_bins) ==
    LET a == ScoreR(t, r_bins) IN
    IF a.raised THEN a ELSE
    LET b == ScoreF(a.table, f_bins) IN
    IF b.raised THEN b ELSE
    LET c == ScoreM(b.table, m_bins) IN
    IF c.raised THEN c ELSE
    [table |-> LabelTable(c.table), raised |-> FALSE]

(***************************************************************************)
(* The methods of RFMAnalyzer.  `last` records the last call, whether it   *)
(* raised, and whether it repeated the call before it (same method, same   *)
(* arguments); it is not part of the object.                               *)
(***************************************************************************)
Called(op, args, raised) == [op |-> op, args |-> args, raised |-> raised, repeat |-> last.op = op /\ last.args = args]

NoScores == <<0, 0, 0, 0>>

\* the value of `label` before the rules have run
NotLabelled == "not labelled"

\* where a table is expected and there is none (None)
NoTable == [none |-> TRUE]

\* main() is not running and there is no BuyTillYouDieModels object
MainIdle ==
    /\ pc = "idle"
    /\ raw_data = <<>>
    /\ clean_data = NoTable
    /\ churn_data = NoTable
    /\ churn_features = NoTable
    /\ clv_predictions = NoTable
    /\ segment_clv = NoTable
    /\ lifetimes = FALSE
    /\ summary = NoTable
    /\ bgf_model = None
    /\ ggf_model = None
    /\ bgf = None
    /\ ggf = None

Init ==
    /\ data \in DataSets
    /\ heap = <<>>
    /\ rfm = None
    /\ rfm_segments = None
    /\ last = [op |-> "init", args |-> <<>>, raised |-> FALSE, repeat |-> FALSE]
    /\ scores = NoScores
    /\ label = NotLabelled
    /\ MainIdle

\* calculate_rfm(reference_date), from (heap, rfm_segments): what it leaves behind
CalculateCall(h, rs, reference_date) == AssignRfm(h, rs, RfmData(data, reference_date))

calculate_rfm(reference_date) ==
    /\ \E c \in {CalculateCall(heap, rfm_segments, reference_date)} :
        /\ heap' = c.heap
        /\ rfm' = c.rfm
        /\ rfm_segments' = c.rfm_segments
    /\ last' = Called("calculate_rfm", <<reference_date>>, FALSE)
    /\ UNCHANGED <<data, scores, label, mainVars, clvVars>>

\* mutant: the metrics recomputed on every segmentation
EnsureRfmAlways(h, r, rs) == CalculateCall(h, rs, None)

\* `if self.rfm is None: self.calculate_rfm()`
EnsureRfm(h, r, rs) == IF r = None THEN CalculateCall(h, rs, None) ELSE [heap |-> h, rfm |-> r, rfm_segments |-> rs]

\* segment_customers, from (heap, rfm, rfm_segments): what it leaves behind
SegmentCall(h, r, rs, r_bins, f_bins, m_bins) ==
    LET a == EnsureRfm(h, r, rs)
        s == SegmentTable(a.heap[a.rfm], r_bins, f_bins, m_bins)
        h1 == [a.heap EXCEPT ![a.rfm] = s.table]
        c == Collect(h1, a.rfm, IF s.raised THEN a.rfm_segments ELSE a.rfm)
    IN [heap |-> c.heap, rfm |-> c.rfm, rfm_segments |-> c.rfm_segments, raised |-> s.raised]

segment_customers(r_bins, f_bins, m_bins) ==
    /\ \E c \in {SegmentCall(heap, rfm, rfm_segments, r_bins, f_bins, m_bins)} :
        /\ heap' = c.heap
        /\ rfm' = c.rfm
        /\ rfm_segments' = c.rfm_segments
        /\ last' = Called("segment_customers", <<r_bins, f_bins, m_bins>>, c.raised)
    /\ UNCHANGED <<data, scores, label, mainVars, clvVars>>

\* `if self.rfm_segments is None: self.segment_customers()`
EnsureSegments(h, r, rs) ==
    IF rs = None THEN SegmentCall(h, r, rs, DefaultBins, DefaultBins, DefaultBins)
    ELSE [heap |-> h, rfm |-> r, rfm_segments |-> rs, raised |-> FALSE]

\* visualize_segments(): after that, it only reads self.rfm_segments
visualize_segments ==
    /\ \E c \in {EnsureSegments(heap, rfm, rfm_segments)} :
        /\ heap' = c.heap
        /\ rfm' = c.rfm
        /\ rfm_segments' = c.rfm_segments
        /\ last' = Called("visualize_segments", <<>>, c.raised)
    /\ UNCHANGED <<data, scores, label, mainVars, clvVars>>

Next ==
    \/ \E reference_date \in RefChoices : calculate_rfm(reference_date)
    \/ \E b \in BinChoices : segment_customers(b[1], b[2], b[3])
    \/ visualize_segments

Spec == Init /\ [][Next]_vars

(***************************************************************************)
(* The segment rules on their own: a score triple of a k-bin segmentation  *)
(* is drawn, and lines 77-90 label it.                                     *)
(***************************************************************************)
RuleInit ==
    /\ data = <<>>
    /\ heap = <<>>
    /\ rfm = None
    /\ rfm_segments = None
    /\ last = [op |-> "init", args |-> <<>>, raised |-> FALSE, repeat |-> FALSE]
    /\ \E k \in RuleBinCounts : scores \in {<<k, r, f, m>> : r \in 1..k, f \in 1..k, m \in {1, k}}
    /\ label = NotLabelled
    /\ MainIdle

label_scores ==
    /\ label = NotLabelled
    /\ label' = SegmentOf(RfmScore(scores[2], scores[3], scores[4]))
    /\ UNCHANGED <<data, heap, rfm, rfm_segments, last, scores, mainVars, clvVars>>

RuleNext == label_scores

RuleSpec == RuleInit /\ [][RuleNext]_vars

(***************************************************************************)
(* The three-customer scenario: X (customer 1) has one invoice 5 days      *)
(* before the reference and spent 500, Y (customer 2) has ten invoices,    *)
(* the latest 2 days before the reference, and spent 5000, Z (customer 3)  *)
(* has one invoice 400 days before the reference and spent 50.  The caller *)
(* fixes the reference and chooses bin counts up to the population size.   *)
(***************************************************************************)
ScenarioRef == 400 * OneDay

ScenarioX == <<[CustomerID |-> 1, InvoiceNo |-> 11, InvoiceDate |-> ScenarioRef - 5 * OneDay, TotalPrice |-> 500]>>

ScenarioY == [k \in 1..10 |-> [CustomerID |-> 2, InvoiceNo |-> 20 + k, InvoiceDate |-> ScenarioRef - (12 - k) * OneDay, TotalPrice |-> 500]]

ScenarioZ == <<[CustomerID |-> 3, InvoiceNo |-> 31, InvoiceDate |-> ScenarioRef - 400 * OneDay, TotalPrice |-> 50]>>

ScenarioData == ScenarioX \o ScenarioY \o ScenarioZ

ScenarioBins == {<<r, f, m>> : r \in 1..3, f \in 1..3, m \in 1..3}

ScenarioInit ==
    /\ data = ScenarioData
    /\ heap = <<>>
    /\ rfm = None
    /\ rfm_segments = None
    /\ last = [op |-> "init", args |-> <<>>, raised |-> FALSE, repeat |-> FALSE]
    /\ scores = NoScores
    /\ label = NotLabelled
    /\ MainIdle

ScenarioNext ==
    \/ calculate_rfm(ScenarioRef)
    \/ \E b \in ScenarioBins : segment_customers(b[1], b[2], b[3])
    \/ visualize_segments

ScenarioSpec == ScenarioInit /\ [][ScenarioNext]_vars

(***************************************************************************)
(* The raw table and DataPreprocessor.clean_data                           *)
(* (src/src/data_preprocessor.py).  A raw row has the columns the pipeline *)
(* reads; CustomerID is a float column whose missing value is NullId, and  *)
(* InvoiceNo is a string, here the sequence of its characters.  A raw      *)
(* table is the rows of up to two customers (c bought c units at unit      *)
(* price 1 on each of p.freq invoices of day p.day) followed by up to      *)
(* MaxJunk further rows, which may lack the customer, be cancellations, or *)
(* have a quantity or a price that is not positive.                        *)
(***************************************************************************)
\* the most further rows of a raw table
MaxJunk == 1

\* NaN in the raw CustomerID column
NullId == 0

DigitChars == <<"0", "1", "2", "3", "4", "5", "6", "7", "8", "9">>

\* the invoice number of the k-th invoice of customer c, as a string
InvoiceChars(c, k) == <<DigitChars[c + 1], DigitChars[k + 1]>>

RawProfileRows(c, p) == [k \in 1..p.freq |-> [CustomerID |-> c, InvoiceNo |-> InvoiceChars(c, k), InvoiceDate |-> p.day * OneDay, Quantity |-> c, UnitPrice |-> 1]]

RECURSIVE RawProfileData(_, _)
RawProfileData(ps, c) == IF c > Len(ps) THEN <<>> ELSE RawProfileRows(c, ps[c]) \o RawProfileData(ps, c + 1)

JunkRow == [CustomerID : {NullId, 1}, InvoiceNo : {<<"9">>, <<"C", "9">>}, InvoiceDate : {1}, Quantity : {-1, 0, 1}, UnitPrice : {0, 2}]

JunkSets == UNION {[1..n -> JunkRow] : n \in 0..MaxJunk}

RawSets == {RawProfileData(ps, 1) \o junk : ps \in UNION {[1..n -> Profile] : n \in 0..2}, junk \in JunkSets}

RawCols == {"CustomerID", "InvoiceNo", "InvoiceDate", "Quantity", "UnitPrice"}

\* df[~df['CustomerID'].isna()]
DropNullCustomers(rows) == SelectSeq(rows, LAMBDA r : r.CustomerID # NullId)

\* mutant: df[df['Quantity'] >= 0]
KeepNonNegativeQuantity(rows) == SelectSeq(rows, LAMBDA r : r.Quantity >= 0)

\* df[df['Quantity'] > 0]
KeepPositiveQuantity(rows) == SelectSeq(rows, LAMBDA r : r.Quantity > 0)

\* df[df['UnitPrice'] > 0]
KeepPositivePrice(rows) == SelectSeq(rows, LAMBDA r : r.UnitPrice > 0)

\* InvoiceNo.astype(str).str.startswith('C')
Cancelled(no) == no # <<>> /\ no[1] = "C"

\* df[~df['InvoiceNo'].astype(str).str.startswith('C')]
DropCancelled(rows) == SelectSeq(rows, LAMBDA r : ~Cancelled(r.InvoiceNo))

\* df['TotalPrice'] = df['Quantity'] * df['UnitPrice']
WithTotalPrice(r) ==
    [CustomerID |-> r.CustomerID, InvoiceNo |-> r.InvoiceNo, InvoiceDate |-> r.InvoiceDate,
     Quantity |-> r.Quantity, UnitPrice |-> r.UnitPrice, TotalPrice |-> r.Quantity * r.UnitPrice]

\* clean_data(data): the table it returns; `data` itself is only copied
CleanData(raw) ==
    LET kept == DropCancelled(KeepPositivePrice(KeepPositiveQuantity(DropNullCustomers(raw))))
    IN [none |-> FALSE, cols |-> RawCols \cup {"TotalPrice"}, rows |-> [i \in DOMAIN kept |-> WithTotalPrice(kept[i])]]

(***************************************************************************)
(* EDAAnalyzer (src/src/eda_analyzer.py): self.data is the table object it *)
(* was given; analyze_temporal_patterns assigns two columns to it.         *)
(***************************************************************************)
\* InvoiceDate.dt.day_name(), as the number of the day in the week
DayOfWeek(t) == Days(t) % 7

\* InvoiceDate.dt.hour
Hour(t) == (t % OneDay) * (24 \div OneDay)

WithTemporalColumns(r) ==
    [CustomerID |-> r.CustomerID, InvoiceNo |-> r.InvoiceNo, InvoiceDate |-> r.InvoiceDate,
     Quantity |-> r.Quantity, UnitPrice |-> r.UnitPrice, TotalPrice |-> r.TotalPrice,
     DayOfWeek |-> DayOfWeek(r.InvoiceDate), Hour |-> Hour(r.InvoiceDate)]

\* self.data['DayOfWeek'] = ...; self.data['Hour'] = ...
AnalyzeTemporalPatterns(t) ==
    [t EXCEPT !.cols = @ \cup {"DayOfWeek", "Hour"}, !.rows = [i \in DOMAIN t.rows |-> WithTemporalColumns(t.rows[i])]]

(***************************************************************************)
(* CustomerChurnAnalyzer (src/src/churn_analyzer.py).  Of the feature      *)
(* table the means, standard deviations and ratios are left out: they are  *)
(* floats that no label depends on.  `threshold` records the argument the  *)
(* table was built for.                                                    *)
(***************************************************************************)
DefaultThreshold == 90

\* inactivity_threshold arguments a caller may pass
ChurnThresholds == {0, 1, DefaultThreshold}

SetMin(S) == CHOOSE x \in S : \A y \in S : x <= y

\* x.min() of a non-empty group
MinInvoiceDate(g) == SetMin({g[i].InvoiceDate : i \in DOMAIN g})

\* customer_last_purchase['DaysSinceLastPurchase'] > inactivity_threshold
ChurnFlag(days, inactivity_threshold) == days > inactivity_threshold

\* mutant: customer_features['DaysSinceLastPurchase'] >= inactivity_threshold
FeatureChurnFlagAtLeast(days, inactivity_threshold) == days >= inactivity_threshold

\* customer_features['DaysSinceLastPurchase'] > inactivity_threshold
FeatureChurnFlag(days, inactivity_threshold) == days > inactivity_threshold

\* one row of customer_last_purchase
ChurnRow(d, c, last_date, inactivity_threshold) ==
    LET last_purchase == MaxInvoiceDate(GroupRows(d, c))
        days == Days(last_date - last_purchase)
    IN [CustomerID |-> c, InvoiceDate |-> last_purchase, DaysSinceLastPurchase |-> days,
        IsChurned |-> ChurnFlag(days, inactivity_threshold)]

\* define_churn(inactivity_threshold): the table it returns
DefineChurn(d, inactivity_threshold) ==
    LET last_date == MaxInvoiceDate(d)
        keys == GroupKeys(d)
    IN [none |-> FALSE, threshold |-> inactivity_threshold,
        rows |-> [i \in DOMAIN keys |-> ChurnRow(d, keys[i], last_date, inactivity_threshold)]]

\* one row of customer_features; CustomerID is its index
FeatureRow(d, c, last_date, inactivity_threshold) ==
    LET g == GroupRows(d, c)
        days == Days(last_date - MaxInvoiceDate(g))
    IN [CustomerID |-> c,
        CustomerLifetime |-> Days(MaxInvoiceDate(g) - MinInvoiceDate(g)),
        DaysSinceLastPurchase |-> days,
        TotalTransactions |-> Len(g),
        UniqueInvoices |-> FrequencyOf(g),
        TotalQuantity |-> SumSeq([i \in DOMAIN g |-> g[i].Quantity]),
        TotalSpend |-> MonetaryOf(g),
        IsChurned |-> FeatureChurnFlag(days, inactivity_threshold)]

\* churn_prediction_features(inactivity_threshold): the table it returns
ChurnFeatures(d, inactivity_threshold) ==
    LET last_date == MaxInvoiceDate(d)
        keys == GroupKeys(d)
    IN [none |-> FALSE, threshold |-> inactivity_threshold,
        rows |-> [i \in DOMAIN keys |-> FeatureRow(d, keys[i], last_date, inactivity_threshold)]]

\* the cleaned, non-empty tables a CustomerChurnAnalyzer is built on
ChurnInputs == {CleanData(raw).rows : raw \in RawSets} \ {<<>>}

ChurnInit ==
    /\ data \in ChurnInputs
    /\ heap = <<>>
    /\ rfm = None
    /\ rfm_segments = None
    /\ last = [op |-> "init", args |-> <<>>, raised |-> FALSE, repeat |-> FALSE]
    /\ scores = NoScores
    /\ label = NotLabelled
    /\ MainIdle

define_churn(inactivity_threshold) ==
    /\ churn_data' = DefineChurn(data, inactivity_threshold)
    /\ UNCHANGED <<data, heap, rfm, rfm_segments, last, scores, label, pc, raw_data, clean_data, churn_features, clv_predictions, segment_clv, clvVars>>

churn_prediction_features(inactivity_threshold) ==
    /\ churn_features' = ChurnFeatures(data, inactivity_threshold)
    /\ UNCHANGED <<data, heap, rfm, rfm_segments, last, scores, label, pc, raw_data, clean_data, churn_data, clv_predictions, segment_clv, clvVars>>

ChurnNext ==
    \/ \E th \in ChurnThresholds : define_churn(th)
    \/ \E th \in ChurnThresholds : churn_prediction_features(th)

ChurnSpec == ChurnInit /\ [][ChurnNext]_vars

(***************************************************************************)
(* BuyTillYouDieModels (src/src/clv_calculator.py) and the comparison of   *)
(* main.py.  The fitted models are external; a clv value is kept as the    *)
(* tuple of the summary values it is computed from.                        *)
(***************************************************************************)
\* one row of the groupby of prepare_transaction_data; CustomerID is its index
SummaryRow(d, c, last_date) ==
    LET g == GroupRows(d, c)
    IN [CustomerID |-> c,
        T |-> Days(last_date - MinInvoiceDate(g)),
        recency |-> Days(last_date - MaxInvoiceDate(g)),
        frequency |-> FrequencyOf(g),
        monetary_value |-> MonetaryOf(g)]

\* prepare_transaction_data(): self.summary
PrepareTransactionData(d) ==
    LET last_date == MaxInvoiceDate(d)
        keys == GroupKeys(d)
        all == [i \in DOMAIN keys |-> SummaryRow(d, keys[i], last_date)]
        kept == SelectSeq(all, LAMBDA r : r.monetary_value > 0 /\ r.frequency > 0)
    IN [none |-> FALSE, cols |-> {"T", "recency", "frequency", "monetary_value"},
        rows |-> [i \in DOMAIN kept |-> [kept[i] EXCEPT !.frequency = @ - 1]]]

\* predict_customer_ltv with both models fitted: self.summary with its new columns
PredictCustomerLtv(s) ==
    [none |-> FALSE, cols |-> s.cols \cup {"predicted_purchases", "expected_avg_value", "clv"},
     rows |-> [i \in DOMAIN s.rows |->
        [CustomerID |-> s.rows[i].CustomerID, T |-> s.rows[i].T, recency |-> s.rows[i].recency,
         frequency |-> s.rows[i].frequency, monetary_value |-> s.rows[i].monetary_value,
         clv |-> <<s.rows[i].frequency, s.rows[i].recency, s.rows[i].T, s.rows[i].monetary_value>>]]]

\* the index label of row i of a table built with reset_index(): a RangeIndex
RangeLabel(i) == i - 1

\* the row of rfm_segments[['Segment']] whose index label equals index label c
JoinedSegmentRow(segments, c) == CHOOSE i \in DOMAIN segments.rows : RangeLabel(i) = c

\* the rows of clv_predictions whose index label is an index label of rfm_segments
JoinedRows(clv, segments) == SelectSeq(clv.rows, LAMBDA r : \E i \in DOMAIN segments.rows : RangeLabel(i) = r.CustomerID)

\* pd.merge(clv_predictions, rfm_segments[['Segment']], left_index=True, right_index=True);
\* SegmentCustomer records the customer whose Segment was taken
MergeOnIndex(clv, segments) ==
    LET kept == JoinedRows(clv, segments)
    IN [none |-> FALSE,
        rows |-> [i \in DOMAIN kept |->
            LET j == JoinedSegmentRow(segments, kept[i].CustomerID)
            IN [CustomerID |-> kept[i].CustomerID, clv |-> kept[i].clv,
                Segment |-> segments.rows[j].Segment, SegmentCustomer |-> segments.rows[j].CustomerID]]]

\* segment_clv_comparison(clv_predictions, rfm_segments): its local segment_clv
SegmentClvComparison(clv, h, rs) ==
    IF clv.none \/ rs = None THEN NoTable ELSE MergeOnIndex(clv, h[rs])

(***************************************************************************)
(* The methods of BuyTillYouDieModels.  A fitted model is external: it is  *)
(* kept as the number of fits of its kind the object has seen, so that a   *)
(* refit shows.  `from lifetimes import ...` raises ImportError when the   *)
(* package is missing (lifetimes = FALSE); fit() of the package may raise  *)
(* (no convergence, no data), which the methods do not catch.  A method    *)
(* leaves behind the object (summary, bgf_model, ggf_model), what it       *)
(* returned (ret) and whether it raised.                                   *)
(***************************************************************************)
\* the most fits of one kind an object sees
MaxFits == 2

Btyd(s, b, g, ret, raised) == [summary |-> s, bgf_model |-> b, ggf_model |-> g, ret |-> ret, raised |-> raised]

\* `if self.summary is None: self.prepare_transaction_data()`
EnsureSummary(o, d) == IF o.summary.none THEN PrepareTransactionData(d) ELSE o.summary

\* fit_bgnbd_model() on object o with self.data = d: the ways it can end
FitBgnbd(o, d, installed) ==
    IF ~installed THEN {Btyd(o.summary, o.bgf_model, o.ggf_model, None, FALSE)}
    ELSE {Btyd(EnsureSummary(o, d), o.bgf_model + 1, o.ggf_model, o.bgf_model + 1, FALSE),
          Btyd(EnsureSummary(o, d), o.bgf_model, o.ggf_model, None, TRUE)}

\* fit_gamma_gamma_model() on object o with self.data = d: the ways it can end
FitGammaGamma(o, d, installed) ==
    IF ~installed THEN {Btyd(o.summary, o.bgf_model, o.ggf_model, None, FALSE)}
    ELSE {Btyd(EnsureSummary(o, d), o.bgf_model, o.ggf_model + 1, o.ggf_model + 1, FALSE),
          Btyd(EnsureSummary(o, d), o.bgf_model, o.ggf_model, None, TRUE)}

\* `if self.bgf_model is None: self.fit_bgnbd_model()`
EnsureBgnbd(o, d, installed) == IF o.bgf_model = None THEN FitBgnbd(o, d, installed) ELSE {o}

\* `if self.ggf_model is None: self.fit_gamma_gamma_model()`
EnsureGammaGamma(o, d, installed) == IF o.ggf_model = None THEN FitGammaGamma(o, d, installed) ELSE {o}

\* lines 254-313 of predict_customer_ltv
PredictOrNone(o) ==
    IF o.bgf_model = None \/ o.ggf_model = None THEN Btyd(o.summary, o.bgf_model, o.ggf_model, NoTable, FALSE)
    ELSE Btyd(PredictCustomerLtv(o.summary), o.bgf_model, o.ggf_model, PredictCustomerLtv(o.summary), FALSE)

\* predict_customer_ltv() on object o with self.data = d: the ways it can end
PredictCalls(o, d, installed) ==
    UNION {IF a.raised THEN {Btyd(a.summary, a.bgf_model, a.ggf_model, NoTable, TRUE)}
           ELSE {IF b.raised THEN Btyd(b.summary, b.bgf_model, b.ggf_model, NoTable, TRUE) ELSE PredictOrNone(b) :
                    b \in EnsureGammaGamma(a, d, installed)} :
           a \in EnsureBgnbd(o, d, installed)}

\* the object as the state holds it
Self == Btyd(summary, bgf_model, ggf_model, None, FALSE)

BtydInit ==
    /\ data \in ChurnInputs
    /\ lifetimes \in BOOLEAN
    /\ summary = NoTable
    /\ bgf_model = None
    /\ ggf_model = None
    /\ bgf = None
    /\ ggf = None
    /\ heap = <<>>
    /\ rfm = None
    /\ rfm_segments = None
    /\ last = [op |-> "init", args |-> <<>>, raised |-> FALSE, repeat |-> FALSE]
    /\ scores = NoScores
    /\ label = NotLabelled
    /\ pc = "idle"
    /\ raw_data = <<>>
    /\ clean_data = NoTable
    /\ churn_data = NoTable
    /\ churn_features = NoTable
    /\ clv_predictions = NoTable
    /\ segment_clv = NoTable

prepare_transaction_data ==
    /\ pc = "idle"
    /\ summary' = PrepareTransactionData(data)
    /\ last' = Called("prepare_transaction_data", <<>>, FALSE)
    /\ UNCHANGED <<data, heap, rfm, rfm_segments, scores, label, mainVars, lifetimes, bgf_model, ggf_model, bgf, ggf>>

fit_bgnbd_model ==
    /\ pc = "idle"
    /\ bgf_model < MaxFits
    /\ \E c \in FitBgnbd(Self, data, lifetimes) :
        /\ summary' = c.summary
        /\ bgf_model' = c.bgf_model
        /\ last' = Called("fit_bgnbd_model", <<>>, c.raised)
    /\ UNCHANGED <<data, heap, rfm, rfm_segments, scores, label, mainVars, lifetimes, ggf_model, bgf, ggf>>

fit_gamma_gamma_model ==
    /\ pc = "idle"
    /\ ggf_model < MaxFits
    /\ \E c \in FitGammaGamma(Self, data, lifetimes) :
        /\ summary' = c.summary
        /\ ggf_model' = c.ggf_model
        /\ last' = Called("fit_gamma_gamma_model", <<>>, c.raised)
    /\ UNCHANGED <<data, heap, rfm, rfm_segments, scores, label, mainVars, lifetimes, bgf_model, bgf, ggf>>

\* predict_customer_ltv(); clv_predictions is what the caller got back
predict_customer_ltv ==
    /\ pc = "idle"
    /\ \E c \in PredictCalls(Self, data, lifetimes) :
        /\ summary' = c.summary
        /\ bgf_model' = c.bgf_model
        /\ ggf_model' = c.ggf_model
        /\ clv_predictions' = c.ret
        /\ last' = Called("predict_customer_ltv", <<>>, c.raised)
    /\ UNCHANGED <<data, heap, rfm, rfm_segments, scores, label, pc, raw_data, clean_data, churn_data, churn_features, segment_clv, lifetimes, bgf, ggf>>

\* a caller other than main() uses the object, in any order
BtydNext ==
    \/ prepare_transaction_data
    \/ fit_bgnbd_model
    \/ fit_gamma_gamma_model
    \/ predict_customer_ltv

(***************************************************************************)
(* DataLoader.download_and_extract (src/src/data_loader.py) as main()      *)
(* calls it.  The network and the files are external: each route either    *)
(* yields a table or does not.  raw_data is None while pc is "load",       *)
(* "alternative", "none" or "stopped".                                     *)
(***************************************************************************)
\* lines 13-31: the ZIP route
download_zip ==
    /\ pc = "load"
    /\ \/ \E raw \in RawSets : raw_data' = raw /\ pc' = "loaded"
       \/ raw_data' = raw_data /\ pc' = "none"
       \/ raw_data' = raw_data /\ pc' = "alternative"
    /\ UNCHANGED <<data, heap, rfm, rfm_segments, last, scores, label, clean_data, churn_data, churn_features, clv_predictions, segment_clv, clvVars>>

\* lines 32-40: the direct URL
download_direct ==
    /\ pc = "alternative"
    /\ \/ \E raw \in RawSets : raw_data' = raw /\ pc' = "loaded"
       \/ raw_data' = raw_data /\ pc' = "none"
    /\ UNCHANGED <<data, heap, rfm, rfm_segments, last, scores, label, clean_data, churn_data, churn_features, clv_predictions, segment_clv, clvVars>>

(***************************************************************************)
(* main(): one step per stage.  An exception in a stage is caught by the   *)
(* try of main, which then ends ("failed").  Fitting and training are      *)
(* external: present or not installed, and able to raise.                  *)
(***************************************************************************)
Outcomes == {"ok", "not installed", "raised"}

MainInit ==
    /\ raw_data = <<>>
    /\ pc = "load"
    /\ lifetimes \in BOOLEAN
    /\ summary = NoTable
    /\ bgf_model = None
    /\ ggf_model = None
    /\ bgf = None
    /\ ggf = None
    /\ clean_data = NoTable
    /\ churn_data = NoTable
    /\ churn_features = NoTable
    /\ clv_predictions = NoTable
    /\ segment_clv = NoTable
    /\ data = <<>>
    /\ heap = <<>>
    /\ rfm = None
    /\ rfm_segments = None
    /\ last = [op |-> "init", args |-> <<>>, raised |-> FALSE, repeat |-> FALSE]
    /\ scores = NoScores
    /\ label = NotLabelled

\* `if raw_data is None: ... return`
main_loaded ==
    /\ pc \in {"loaded", "none"}
    /\ pc' = IF pc = "none" THEN "stopped" ELSE "clean"
    /\ UNCHANGED <<data, heap, rfm, rfm_segments, last, scores, label, raw_data, clean_data, churn_data, churn_features, clv_predictions, segment_clv, clvVars>>

\* clean_data = preprocessor.clean_data(raw_data)
main_clean ==
    /\ pc = "clean"
    /\ clean_data' = CleanData(raw_data)
    /\ pc' = "eda"
    /\ UNCHANGED <<data, heap, rfm, rfm_segments, last, scores, label, raw_data, churn_data, churn_features, clv_predictions, segment_clv, clvVars>>

\* eda = EDAAnalyzer(clean_data) and its four analyses; what the plots do with an
\* empty table is the plotting library's: they may raise before any assignment
main_eda ==
    /\ pc = "eda"
    /\ \/ /\ clean_data' = AnalyzeTemporalPatterns(clean_data)
          /\ pc' = "rfm"
       \/ /\ clean_data.rows = <<>>
          /\ clean_data' = clean_data
          /\ pc' = "failed"
    /\ UNCHANGED <<data, heap, rfm, rfm_segments, last, scores, label, raw_data, churn_data, churn_features, clv_predictions, segment_clv, clvVars>>

\* rfm_analyzer = RFMAnalyzer(clean_data): self.data is the object clean_data,
\* which no later stage assigns to
main_rfm ==
    /\ pc = "rfm"
    /\ data' = clean_data.rows
    /\ heap' = <<>>
    /\ rfm' = None
    /\ rfm_segments' = None
    /\ pc' = "calculate_rfm"
    /\ UNCHANGED <<last, scores, label, raw_data, clean_data, churn_data, churn_features, clv_predictions, segment_clv, clvVars>>

\* rfm_data = rfm_analyzer.calculate_rfm()
main_calculate_rfm ==
    /\ pc = "calculate_rfm"
    /\ \E c \in {CalculateCall(heap, rfm_segments, None)} :
        /\ heap' = c.heap
        /\ rfm' = c.rfm
        /\ rfm_segments' = c.rfm_segments
    /\ last' = Called("calculate_rfm", <<None>>, FALSE)
    /\ pc' = "segment_customers"
    /\ UNCHANGED <<data, scores, label, raw_data, clean_data, churn_data, churn_features, clv_predictions, segment_clv, clvVars>>

\* rfm_segments = rfm_analyzer.segment_customers()
main_segment_customers ==
    /\ pc = "segment_customers"
    /\ \E c \in {SegmentCall(heap, rfm, rfm_segments, DefaultBins, DefaultBins, DefaultBins)} :
        /\ heap' = c.heap
        /\ rfm' = c.rfm
        /\ rfm_segments' = c.rfm_segments
        /\ last' = Called("segment_customers", <<DefaultBins, DefaultBins, DefaultBins>>, c.raised)
        /\ pc' = IF c.raised THEN "failed" ELSE "visualize_segments"
    /\ UNCHANGED <<data, scores, label, raw_data, clean_data, churn_data, churn_features, clv_predictions, segment_clv, clvVars>>

\* rfm_analyzer.visualize_segments()
main_visualize_segments ==
    /\ pc = "visualize_segments"
    /\ \E c \in {EnsureSegments(heap, rfm, rfm_segments)} :
        /\ heap' = c.heap
        /\ rfm' = c.rfm
        /\ rfm_segments' = c.rfm_segments
        /\ last' = Called("visualize_segments", <<>>, c.raised)
        /\ pc' = IF c.raised THEN "failed" ELSE "churn"
    /\ UNCHANGED <<data, scores, label, raw_data, clean_data, churn_data, churn_features, clv_predictions, segment_clv, clvVars>>

\* churn_analyzer = CustomerChurnAnalyzer(clean_data); define_churn(90);
\* churn_prediction_features(); train_churn_model(churn_features)
main_churn ==
    /\ pc = "churn"
    /\ churn_data' = DefineChurn(clean_data.rows, DefaultThreshold)
    /\ \E trained \in Outcomes :
        IF trained = "raised"
        THEN churn_features' \in {churn_features, ChurnFeatures(clean_data.rows, DefaultThreshold)} /\ pc' = "failed"
        ELSE churn_features' = ChurnFeatures(clean_data.rows, DefaultThreshold) /\ pc' = "clv"
    /\ UNCHANGED <<data, heap, rfm, rfm_segments, last, scores, label, raw_data, clean_data, clv_predictions, segment_clv, clvVars>>

\* CLVCalculator(clean_data).fit_bgnbd_model(), which fits when lifetimes is there;
\* btyd_models = BuyTillYouDieModels(clean_data); prepare_transaction_data()
main_clv ==
    /\ pc = "clv"
    /\ \/ /\ summary' = PrepareTransactionData(clean_data.rows)
          /\ pc' = "fit_bgnbd"
       \/ /\ lifetimes
          /\ summary' = summary
          /\ pc' = "failed"
    /\ bgf_model' = None
    /\ ggf_model' = None
    /\ UNCHANGED <<data, heap, rfm, rfm_segments, last, scores, label, raw_data, clean_data, churn_data, churn_features, clv_predictions, segment_clv, lifetimes, bgf, ggf>>

\* bgf = btyd_models.fit_bgnbd_model()
main_fit_bgnbd ==
    /\ pc = "fit_bgnbd"
    /\ \E c \in FitBgnbd(Self, clean_data.rows, lifetimes) :
        /\ summary' = c.summary
        /\ bgf_model' = c.bgf_model
        /\ bgf' = IF c.raised THEN bgf ELSE c.ret
        /\ last' = Called("fit_bgnbd_model", <<>>, c.raised)
        /\ pc' = IF c.raised THEN "failed" ELSE "fit_gamma_gamma"
    /\ UNCHANGED <<data, heap, rfm, rfm_segments, scores, label, raw_data, clean_data, churn_data, churn_features, clv_predictions, segment_clv, lifetimes, ggf_model, ggf>>

\* ggf = btyd_models.fit_gamma_gamma_model()
main_fit_gamma_gamma ==
    /\ pc = "fit_gamma_gamma"
    /\ \E c \in FitGammaGamma(Self, clean_data.rows, lifetimes) :
        /\ summary' = c.summary
        /\ ggf_model' = c.ggf_model
        /\ ggf' = IF c.raised THEN ggf ELSE c.ret
        /\ last' = Called("fit_gamma_gamma_model", <<>>, c.raised)
        /\ pc' = IF c.raised THEN "failed" ELSE "predict"
    /\ UNCHANGED <<data, heap, rfm, rfm_segments, scores, label, raw_data, clean_data, churn_data, churn_features, clv_predictions, segment_clv, lifetimes, bgf_model, bgf>>

\* clv_predictions = None; `if bgf is not None and ggf is not None:
\* clv_predictions = btyd_models.predict_customer_ltv(time_horizon=12)`
main_predict ==
    /\ pc = "predict"
    /\ IF bgf # None /\ ggf # None
       THEN \E c \in PredictCalls(Self, clean_data.rows, lifetimes) :
                /\ summary' = c.summary
                /\ bgf_model' = c.bgf_model
                /\ ggf_model' = c.ggf_model
                /\ clv_predictions' = c.ret
                /\ last' = Called("predict_customer_ltv", <<>>, c.raised)
                /\ pc' = IF c.raised THEN "failed" ELSE "compare"
       ELSE /\ clv_predictions' = NoTable
            /\ pc' = "compare"
            /\ UNCHANGED <<summary, bgf_model, ggf_model, last>>
    /\ UNCHANGED <<data, heap, rfm, rfm_segments, scores, label, raw_data, clean_data, churn_data, churn_features, segment_clv, lifetimes, bgf, ggf>>

\* print_summary_metrics(clean_data, churn_data); segment_clv_comparison(clv_predictions, rfm_segments)
main_compare ==
    /\ pc = "compare"
    /\ segment_clv' = SegmentClvComparison(clv_predictions, heap, rfm_segments)
    /\ pc' = "done"
    /\ UNCHANGED <<data, heap, rfm, rfm_segments, last, scores, label, raw_data, clean_data, churn_data, churn_features, clv_predictions, clvVars>>

MainNext ==
    \/ download_zip
    \/ download_direct
    \/ main_loaded
    \/ main_clean
    \/ main_eda
    \/ main_rfm
    \/ main_calculate_rfm
    \/ main_segment_customers
    \/ main_visualize_segments
    \/ main_churn
    \/ main_clv
    \/ main_fit_bgnbd
    \/ main_fit_gamma_gamma
    \/ main_predict
    \/ main_compare

MainSpec == MainInit /\ [][MainNext]_vars

(***************************************************************************)
(* The CLV models under both kinds of caller: main(), or a caller that     *)
(* uses a BuyTillYouDieModels object in any order.                         *)
(***************************************************************************)
ClvInit == BtydInit \/ MainInit

ClvNext == BtydNext \/ MainNext

ClvSpec == ClvInit /\ [][ClvNext]_vars

(***************************************************************************)
(* Properties.                                                             *)
(***************************************************************************)
CustomerIds(d) == {d[i].CustomerID : i \in DOMAIN d}

RowsOf(d, c) == {k \in DOMAIN d : d[k].CustomerID = c}

LatestInvoice(d, c) == SetMax({d[k].InvoiceDate : k \in RowsOf(d, c)})

\* the tables the analyzer references, by heap position
Tables == DOMAIN heap

Labelled == label # NotLabelled

\* the rules of the spec's table, by order number
RuleMatches(n, r, f) ==
    CASE n = 1 -> r >= 4
      [] n = 2 -> r >= 2 /\ r < 4 /\ f >= 3
      [] n = 3 -> r >= 3 /\ f < 3
      [] n = 4 -> r < 2 /\ f >= 4
      [] n = 5 -> r < 2 /\ f < 2

RuleLabel(n) ==
    CASE n = 1 -> "Champions"
      [] n = 2 -> "Loyal Customers"
      [] n = 3 -> "Potential Loyalists"
      [] n = 4 -> "At Risk"
      [] n = 5 -> "Lost"

Matching(r, f) == {n \in 1..5 : RuleMatches(n, r, f)}

FirstMatchLabel(r, f) == IF Matching(r, f) = {} THEN "Low-Value" ELSE RuleLabel(CHOOSE n \in Matching(r, f) : \A o \in Matching(r, f) : n <= o)

LastMatchLabel(r, f) == IF Matching(r, f) = {} THEN "Low-Value" ELSE RuleLabel(CHOOSE n \in Matching(r, f) : \A o \in Matching(r, f) : n >= o)

SegmentLabels == {"Champions", "Loyal Customers", "Potential Loyalists", "At Risk", "Lost", "Low-Value"}

\* C1 as stated: for k=5 the Segment is the label of the FIRST matching rule, so
\* every r_score >= 4 is Champions whatever the f_score.
C1_FirstMatchWins ==
    (Labelled /\ scores[1] = 5) =>
        /\ label = FirstMatchLabel(scores[2], scores[3])
        /\ scores[2] >= 4 => label = "Champions"

\* C1 amended: for k=5 the Segment is the label of the LAST matching rule of the
\* ordered list (Low-Value when none matches); a customer with r_score >= 4 is
\* Champions when f_score >= 3 and Potential Loyalists when f_score < 3.
C1_LastMatchWins ==
    (Labelled /\ scores[1] = 5) =>
        /\ label = LastMatchLabel(scores[2], scores[3])
        /\ scores[2] >= 4 => label = (IF scores[3] >= 3 THEN "Champions" ELSE "Potential Loyalists")

C1_Witness == Labelled /\ scores[1] = 5 /\ scores[2] = 4 /\ scores[3] = 1 /\ label = "Potential Loyalists"

\* C2, segment coverage: for k=5 every (r_score, f_score) pair gets a label of the
\* closed set of six, and a pair matched by none of the rules 1-5 gets Low-Value.
C2_SegmentCoverage ==
    (Labelled /\ scores[1] = 5) =>
        /\ label \in SegmentLabels
        /\ Matching(scores[2], scores[3]) = {} => label = "Low-Value"

C2_Witness == Labelled /\ scores[1] = 5 /\ Matching(scores[2], scores[3]) = {} /\ label = "Low-Value"

\* C3, completeness: every table of the analyzer (built by calculate_rfm, kept by
\* segment_customers) has exactly one row per distinct CustomerID of the input.
C3_OneRowPerCustomer ==
    \A t \in Tables :
        /\ Len(heap[t].rows) = Cardinality(CustomerIds(data))
        /\ {heap[t].rows[i].CustomerID : i \in DOMAIN heap[t].rows} = CustomerIds(data)

C3_Witness ==
    \E t \in Tables :
        /\ "Segment" \in heap[t].cols
        /\ Len(heap[t].rows) >= 2
        /\ Len(data) > Len(heap[t].rows)
        /\ \E i \in DOMAIN heap[t].rows : Cardinality(RowsOf(data, heap[t].rows[i].CustomerID)) = 1

\* C4, frequency: Frequency is the number of distinct invoice identifiers among the
\* customer's records, hence at least 1.
C4_FrequencyDistinctInvoices ==
    \A t \in Tables : \A i \in DOMAIN heap[t].rows :
        /\ heap[t].rows[i].Frequency = Cardinality({data[k].InvoiceNo : k \in RowsOf(data, heap[t].rows[i].CustomerID)})
        /\ heap[t].rows[i].Frequency >= 1

C4_Witness ==
    \E t \in Tables : \E i \in DOMAIN heap[t].rows :
        /\ heap[t].rows[i].Frequency = 1
        /\ Cardinality(RowsOf(data, heap[t].rows[i].CustomerID)) >= 2

C6_EveryCustomerScored ==
    (last.op = "segment_customers" /\ heap[rfm].rows # <<>>) =>
        /\ {"R_Score", "F_Score", "M_Score"} \subseteq heap[rfm].cols
        /\ \A i \in DOMAIN heap[rfm].rows :
            /\ heap[rfm].rows[i].R_Score \in 1..last.args[1]
            /\ heap[rfm].rows[i].F_Score \in 1..last.args[2]
            /\ heap[rfm].rows[i].M_Score \in 1..last.args[3]

DistinctValues(t, metric) == Cardinality(Range(Column(t, metric)))

\* C7 as stated: when a metric has fewer than k distinct values, segment_customers
\* does not end in an error; it returns a scored, segmented table.
C7_DegenerateEdgesNoError ==
    (/\ last.op = "segment_customers"
     /\ heap[rfm].rows # <<>>
     /\ \/ DistinctValues(heap[rfm], "Recency") < last.args[1]
        \/ DistinctValues(heap[rfm], "Frequency") < last.args[2]
        \/ DistinctValues(heap[rfm], "Monetary") < last.args[3]) =>
        /\ ~last.raised
        /\ rfm_segments = rfm
        /\ "Segment" \in heap[rfm].cols

\* C8, score monotonicity: in a scored table a strictly lower Recency never has a
\* lower R_Score, a strictly higher Frequency (Monetary) never has a lower F_Score
\* (M_Score); after a segmentation the lowest recency has label r_bins and the
\* highest has label 1.
C8_ScoreMonotone ==
    /\ \A t \in Tables : \A i, j \in DOMAIN heap[t].rows :
        /\ ("R_Score" \in heap[t].cols /\ heap[t].rows[i].Recency < heap[t].rows[j].Recency) => heap[t].rows[i].R_Score >= heap[t].rows[j].R_Score
        /\ ("F_Score" \in heap[t].cols /\ heap[t].rows[i].Frequency > heap[t].rows[j].Frequency) => heap[t].rows[i].F_Score >= heap[t].rows[j].F_Score
        /\ ("M_Score" \in heap[t].cols /\ heap[t].rows[i].Monetary > heap[t].rows[j].Monetary) => heap[t].rows[i].M_Score >= heap[t].rows[j].M_Score
    /\ (last.op = "segment_customers" /\ ~last.raised) =>
        \A i \in DOMAIN heap[rfm].rows :
            /\ (\A j \in DOMAIN heap[rfm].rows : heap[rfm].rows[i].Recency <= heap[rfm].rows[j].Recency) => heap[rfm].rows[i].R_Score = last.args[1]
            /\ (\A j \in DOMAIN heap[rfm].rows : heap[rfm].rows[i].Recency >= heap[rfm].rows[j].Recency) => heap[rfm].rows[i].R_Score = 1

C8_Witness ==
    /\ last.op = "segment_customers"
    /\ ~last.raised
    /\ last.args = <<DefaultBins, 1, 2>>
    /\ Len(heap[rfm].rows) = 3
    /\ \E i, j \in DOMAIN heap[rfm].rows :
        /\ heap[rfm].rows[i].Recency < heap[rfm].rows[j].Recency
        /\ heap[rfm].rows[i].R_Score > heap[rfm].rows[j].R_Score
        /\ heap[rfm].rows[i].Monetary < heap[rfm].rows[j].Monetary
        /\ heap[rfm].rows[i].M_Score < heap[rfm].rows[j].M_Score

\* C9 as stated: calculate_rfm and then segment_customers on an input with no
\* records produce an empty table and no error.
C9_EmptyInputNoError ==
    (data = <<>> /\ last.op = "segment_customers") =>
        /\ ~last.raised
        /\ rfm_segments # None
        /\ heap[rfm_segments].rows = <<>>

\* C10, idempotence: a segment_customers call that repeats the call before it (same
\* bin counts, no call in between) leaves the table, both references and the
\* outcome as the first call left them.
C10_Idempotent ==
    [][(last'.op = "segment_customers" /\ last'.repeat) =>
        (heap' = heap /\ rfm' = rfm /\ rfm_segments' = rfm_segments /\ last'.raised = last.raised)]_vars

C10_Witness ==
    /\ last.op = "segment_customers"
    /\ last.repeat
    /\ ~last.raised
    /\ last.args = <<DefaultBins, DefaultBins, DefaultBins>>
    /\ Len(heap[rfm].rows) >= 2
    /\ "Segment" \in heap[rfm].cols

\* C11 as stated: in the scenario, with the reference fixed and every bin count at
\* most the population size 3, segment_customers completes, Y has the highest
\* R_Score and F_Score and is a Champion, Z has the lowest and is Lost, and X is
\* scored between them.
C11_Scenario ==
    (last.op = "segment_customers" /\ heap[rfm].ref = ScenarioRef) =>
        /\ ~last.raised
        /\ LET X == heap[rfm].rows[1]
               Y == heap[rfm].rows[2]
               Z == heap[rfm].rows[3]
           IN /\ Y.R_Score >= X.R_Score /\ X.R_Score >= Z.R_Score
              /\ Y.F_Score >= X.F_Score /\ X.F_Score >= Z.F_Score
              /\ Y.Segment = "Champions"
              /\ Z.Segment = "Lost"

\* the metric part of a table: its customers, their three metrics, its reference
Metrics(t) ==
    [ref |-> t.ref,
     rows |-> [i \in DOMAIN t.rows |-> [CustomerID |-> t.rows[i].CustomerID, Recency |-> t.rows[i].Recency,
                                        Frequency |-> t.rows[i].Frequency, Monetary |-> t.rows[i].Monetary]]]

ScoreCols == {"R_Score", "F_Score", "M_Score", "RFM_Score", "Segment"}

\* C14, two-pass ordering: a table that carries a score column has all four metric
\* columns and one row per customer of the input; segment_customers without a
\* metric table leaves the scoring of the metric table of the default reference,
\* with a metric table it keeps that table's metrics and reference; and
\* visualize_segments without segments leaves what segment_customers() with the
\* default bins leaves, with segments it changes nothing.
C14_TwoPass ==
    [][/\ \A t \in DOMAIN heap' :
            (heap'[t].cols \cap ScoreCols # {}) =>
                /\ MetricCols \subseteq heap'[t].cols
                /\ {heap'[t].rows[i].CustomerID : i \in DOMAIN heap'[t].rows} = CustomerIds(data)
       /\ (last'.op = "segment_customers" /\ rfm = None) =>
            heap'[rfm'] = SegmentTable(RfmData(data, None), last'.args[1], last'.args[2], last'.args[3]).table
       /\ (last'.op = "segment_customers" /\ rfm # None) =>
            Metrics(heap'[rfm']) = Metrics(heap[rfm])
       /\ (last'.op = "visualize_segments" /\ rfm_segments = None) =>
            LET c == SegmentCall(heap, rfm, rfm_segments, DefaultBins, DefaultBins, DefaultBins)
            IN heap' = c.heap /\ rfm' = c.rfm /\ rfm_segments' = c.rfm_segments
       /\ (last'.op = "visualize_segments" /\ rfm_segments # None) =>
            (heap' = heap /\ rfm' = rfm /\ rfm_segments' = rfm_segments)
      ]_vars

C14_Witness ==
    /\ last.op = "segment_customers"
    /\ ~last.raised
    /\ data # <<>>
    /\ heap[rfm].ref = 1
    /\ SetMax({data[k].InvoiceDate : k \in DOMAIN data}) + OneDay # 1
    /\ Len(heap[rfm].rows) >= 2
    /\ "Segment" \in heap[rfm].cols

\* C15, the label is a function of (R_Score, F_Score): whatever M_Score replaces
\* the one drawn, the rules give the same Segment.
C15_SegmentIgnoresMonetary ==
    Labelled => \A m \in 1..scores[1] : SegmentOf(RfmScore(scores[2], scores[3], m)) = label

C15_Witness ==
    /\ Labelled
    /\ scores[4] = scores[1]
    /\ scores[2] = 1
    /\ scores[3] = 1
    /\ label = "Lost"

\* C16 as stated: the table calculate_rfm returned (the object self.rfm) is left as
\* it is by a segment_customers call, and the table segment_customers returned
\* (the object self.rfm_segments) is left as it is by every later call.
C16_SnapshotsReadOnly ==
    [][/\ (last'.op = "segment_customers" /\ rfm # None) => heap'[rfm'] = heap[rfm]
       /\ (last'.op # "segment_customers" /\ rfm_segments # None) => heap'[rfm_segments'] = heap[rfm_segments]
      ]_vars

\* C18 as stated: for every bin count the two rule inputs read back from the
\* RFM_Score string are the customer's R_Score and F_Score.
C18_RuleInputsAreScores ==
    Labelled =>
        /\ RuleR(RfmScore(scores[2], scores[3], scores[4])) = scores[2]
        /\ RuleF(RfmScore(scores[2], scores[3], scores[4])) = scores[3]

\* C19 as stated: whenever rfm_segments is set it is the segmentation of the
\* current metric table: same customers, same metrics, same reference.
C19_SegmentsCurrent ==
    (rfm_segments # None /\ data # <<>>) => Metrics(heap[rfm_segments]) = Metrics(heap[rfm])

\* the customers of a table that has a CustomerID per row
TableCustomers(t) == {t.rows[i].CustomerID : i \in DOMAIN t.rows}

\* C12 as stated: every row of the merged table carries the Segment of the customer
\* whose CLV it holds, and every customer that is in both the CLV table and the
\* segment table is in the merged table.
C12_JoinByCustomer ==
    (pc = "done" /\ ~segment_clv.none) =>
        /\ \A i \in DOMAIN segment_clv.rows : segment_clv.rows[i].SegmentCustomer = segment_clv.rows[i].CustomerID
        /\ (TableCustomers(clv_predictions) \cap TableCustomers(heap[rfm_segments])) \subseteq TableCustomers(segment_clv)

\* C13, input boundary: every row of the cleaned table has a customer, a positive
\* Quantity and UnitPrice, an InvoiceNo that does not start with 'C' and
\* TotalPrice = Quantity x UnitPrice > 0; every Monetary computed from it is > 0.
C13_CleanRows ==
    /\ ~clean_data.none =>
        \A i \in DOMAIN clean_data.rows :
            LET r == clean_data.rows[i] IN
            /\ r.CustomerID # NullId
            /\ r.Quantity > 0
            /\ r.UnitPrice > 0
            /\ r.InvoiceNo[1] # "C"
            /\ r.TotalPrice = r.Quantity * r.UnitPrice
            /\ r.TotalPrice > 0
    /\ \A t \in Tables : \A i \in DOMAIN heap[t].rows : heap[t].rows[i].Monetary > 0

C13_Witness ==
    /\ pc = "segment_customers"
    /\ Len(heap[rfm].rows) = 2
    /\ \E k \in DOMAIN raw_data : raw_data[k].CustomerID = 1 /\ raw_data[k].Quantity = 0 /\ raw_data[k].UnitPrice > 0 /\ ~Cancelled(raw_data[k].InvoiceNo)
    /\ Len(clean_data.rows) < Len(raw_data)
    /\ \E i \in DOMAIN heap[rfm].rows : heap[rfm].rows[i].Monetary >= 4

\* C17 as stated: no stage of main changes the loaded raw table, and once clean_data has
\* returned the cleaned table no stage changes it.
C17_TablesUnchanged ==
    [][/\ pc \notin {"load", "alternative"} => raw_data' = raw_data
       /\ pc # "clean" => clean_data' = clean_data
      ]_vars

\* the time from the latest invoice of customer c to the latest invoice of all
SinceLastPurchase(c) == SetMax({data[k].InvoiceDate : k \in DOMAIN data}) - LatestInvoice(data, c)

\* IsChurned of every row of t is true exactly when more than t.threshold whole
\* days lie between the customer's latest invoice and the latest invoice of all
ChurnedExactly(t) ==
    \A i \in DOMAIN t.rows :
        t.rows[i].IsChurned <=> (SinceLastPurchase(t.rows[i].CustomerID) >= (t.threshold + 1) * OneDay)

OncePerCustomer(t) == Len(t.rows) = Cardinality(CustomerIds(data)) /\ TableCustomers(t) = CustomerIds(data)

LatestNotChurned(t) ==
    \A i \in DOMAIN t.rows :
        (t.threshold >= 0 /\ SinceLastPurchase(t.rows[i].CustomerID) = 0) => ~t.rows[i].IsChurned

\* C20, churn labelling: each of the two tables has every customer exactly once,
\* labels a customer churned exactly when the whole days since the latest invoice
\* of all exceed the threshold, and never the holder of the latest invoice; built
\* for the same threshold they give every customer the same IsChurned.
C20_ChurnLabels ==
    /\ ~churn_data.none => (OncePerCustomer(churn_data) /\ ChurnedExactly(churn_data) /\ LatestNotChurned(churn_data))
    /\ ~churn_features.none => (OncePerCustomer(churn_features) /\ ChurnedExactly(churn_features) /\ LatestNotChurned(churn_features))
    /\ (~churn_data.none /\ ~churn_features.none /\ churn_data.threshold = churn_features.threshold) =>
        \A i \in DOMAIN churn_data.rows : \A j \in DOMAIN churn_features.rows :
            churn_data.rows[i].CustomerID = churn_features.rows[j].CustomerID =>
                churn_data.rows[i].IsChurned = churn_features.rows[j].IsChurned

C20_Witness ==
    /\ ~churn_data.none
    /\ ~churn_features.none
    /\ churn_data.threshold = 0
    /\ churn_features.threshold = 0
    /\ \E i, j \in DOMAIN churn_features.rows :
        /\ churn_features.rows[i].IsChurned
        /\ SinceLastPurchase(churn_features.rows[i].CustomerID) % OneDay # 0
        /\ ~churn_features.rows[j].IsChurned
        /\ churn_data.rows[i].IsChurned

\* a stage of main after the loading has run: something it leaves behind is there
StageRan ==
    \/ ~clean_data.none
    \/ heap # <<>>
    \/ rfm # None
    \/ ~churn_data.none
    \/ ~churn_features.none
    \/ ~summary.none
    \/ ~clv_predictions.none
    \/ ~segment_clv.none

\* C22 as stated: download_and_extract returns None only out of the alternative
\* direct-URL read, tried and failed; a ZIP route that yields no table is followed by
\* the alternative route; and after a None from the loader main stops with no
\* cleaning, EDA, RFM, churn or CLV stage run.
C22_FallbackBeforeNone ==
    [][/\ pc' = "none" => pc = "alternative"
       /\ (pc = "load" /\ pc' # "loaded") => pc' = "alternative"
       /\ pc \in {"none", "stopped"} => (pc' = "stopped" /\ ~StageRan')
      ]_vars

\* table t carries a column that predict_customer_ltv adds
Predicted(t) == ~t.none /\ {"predicted_purchases", "clv"} \cap t.cols # {}

\* C21 as stated: in a call of predict_customer_ltv, from a caller in any order or
\* from main, a model already fitted is not fitted again; a table comes back, with
\* the prediction and clv columns in the summary, only when both models are fitted;
\* when a model is still missing after the call, the call returned None (it did not
\* raise) and the summary has no prediction or clv column.  And main hands
\* predictions to segment_clv_comparison only when both of its fits returned a model.
C21_ClvGating ==
    [][/\ (pc \in {"idle", "predict"} /\ last'.op = "predict_customer_ltv") =>
            /\ bgf_model # None => bgf_model' = bgf_model
            /\ ggf_model # None => ggf_model' = ggf_model
            /\ (Predicted(summary') \/ ~clv_predictions'.none) =>
                    /\ bgf_model' # None
                    /\ ggf_model' # None
                    /\ clv_predictions' = summary'
            /\ (bgf_model' = None \/ ggf_model' = None) =>
                    /\ ~last'.raised
                    /\ clv_predictions'.none
                    /\ ~Predicted(summary')
       /\ (pc = "compare" /\ ~clv_predictions.none) => (bgf # None /\ ggf # None)
      ]_vars

====
